---- MODULE Spec2Model ----
(***************************************************************************)
(* Window groups for Raycast: the window manager (System Events scripts),  *)
(* the switch / show-all handlers, the match keys and the group storage.   *)
(*                                                                         *)
(* Text is modelled as a sequence of one-character strings, so that key    *)
(* building (concatenation), trimming and case folding are computed as the *)
(* code computes them.  The alphabets used hold no double quote and no     *)
(* backslash: for such text the AppleScript literal built with             *)
(* replace(/"/g, '\\"') denotes the text itself.                           *)
(***************************************************************************)
EXTENDS Integers, Sequences, FiniteSets, TLC

VARIABLES
    procs,          \* System Events: process -> [running, visible, wins]
    frontApp,       \* System Events: the frontmost process
    pc,             \* position of the running handler
    op,             \* which handler runs / ran last
    grp,            \* the group handed to switchToGroup: [id, windows]
    idx,            \* loop index inside restoreWindows
    shown,          \* restoreWindows: let shown
    notFound,       \* restoreWindows: const notFound
    found,          \* history: per reference, the window the script acted on
    faults,         \* history: the phases whose script call was rejected
    minimizedBefore,\* history: minimized windows restoreAllWindows started from
    refFault,       \* history: indices whose per-window script call was rejected
    threw,          \* history: the handler went through its catch block
    toast,          \* the handler's toast: [style, title, message]
    activeGroupId,  \* useState activeGroupId
    last,           \* history: summary of the last completed switch
    prev,           \* history: summary of the switch before, when repeated
    calls,          \* history: the script calls of the running handler, in order
    keyRef,         \* match keys: a stored window reference
    keyWin,         \* match keys: a live window
    keyPc,          \* match keys: position
    keyKeep,        \* match keys: shouldKeep of minimizeAllExcept
    keyUsed,        \* match keys: usedKeys.has(...) of loadOpenWindows
    store,          \* LocalStorage item "window-groups": the groups array
    now,            \* the clock read by Date.now() / new Date()
    task,           \* storage callers: task -> [pc, ...locals]
    isLoading,      \* create-group: useState isLoading
    openWindows,    \* create-group: useState openWindows
    selectedWindows,\* create-group: useState selectedWindows, a set of keys
    loader,         \* create-group: loadOpenWindows, its position and `windows`
    form,           \* create-group: the pushed ConfirmGroupForm and its prop
    listGroups,     \* manage-groups: useState groups
    lister,         \* manage-groups: loadGroupsData / delete handler, its position
    sw,             \* two overlapping switch handlers: handler -> [pc, ...locals]
    swStart         \* history: System Events state before the two were triggered

winVars == <<procs, frontApp, pc, op, grp, idx, shown, notFound, found, faults,
             minimizedBefore, refFault, threw, toast, activeGroupId, last, prev,
             calls>>
keyVars == <<keyRef, keyWin, keyPc, keyKeep, keyUsed>>
storeVars == <<store, now, task>>
uiVars == <<isLoading, openWindows, selectedWindows, loader, form>>
mgVars == <<listGroups, lister>>
twoVars == <<sw, swStart>>
vars == <<winVars, keyVars, storeVars, uiVars, mgVars, twoVars>>

None == "none"

NoWindow == <<>>

-----------------------------------------------------------------------------
(* Bounds *)

MaxWinsA == 2       \* windows of application A
MaxWinsB == 1       \* windows of application B
MaxRefs == 2        \* window references in a group handed to a switch
MaxKeyLen == 3      \* characters of an application name plus a window title
MaxGroups == 2      \* stored groups
MaxClock == 1       \* values of the clock
MaxOpenWins == 2    \* windows of application A while create-group is open

-----------------------------------------------------------------------------
(* Text *)

\* String.prototype.toLowerCase / AppleScript's case folding, per character.
LowerChar(c) ==
    CASE c = "A" -> "a"
      [] c = "B" -> "b"
      [] c = "V" -> "v"
      [] c = "W" -> "w"
      [] OTHER -> c

LowerStr(s) == [i \in 1..Len(s) |-> LowerChar(s[i])]

\* AppleScript `a is equal to b` on text outside a `considering case` block:
\* text comparison ignores case.
TextEqIgnoringCase(a, b) == LowerStr(a) = LowerStr(b)

TextEqExact(a, b) == a = b

TextEq(a, b) == TextEqIgnoringCase(a, b)

-----------------------------------------------------------------------------
(* The processes System Events knows *)

Apps == {"A", "B", "R", "H"}

RaycastBundle == "com.raycast.macos"

\* name of proc
procName(a) == <<a>>

\* bundle identifier of proc
procBundle(a) ==
    CASE a = "R" -> RaycastBundle
      [] a = "A" -> "com.example.a"
      [] a = "B" -> "com.example.b"
      [] OTHER -> "com.example.helper"

\* background only of proc
backgroundOnly(a) == a = "H"

Titles == {<<"t">>, <<"u">>}

\* a window: [id, title, min]; id is the window's identity, title its name,
\* min its AXMinimized attribute
WinSeqs(n) ==
    UNION {{[j \in 1..k |-> [id |-> j, title |-> f[j][1], min |-> f[j][2]]] :
                f \in [1..k -> Titles \X BOOLEAN]} : k \in 0..n}

ProcStates(n) ==
    {[running |-> FALSE, visible |-> FALSE, wins |-> <<>>]} \cup
    {[running |-> TRUE, visible |-> v, wins |-> ws] : v \in BOOLEAN, ws \in WinSeqs(n)}

\* the tool's own process: running, visible, one window on screen
RaycastProc == [running |-> TRUE, visible |-> TRUE,
                wins |-> <<[id |-> 1, title |-> <<"t">>, min |-> FALSE]>>]

\* a background-only process with one window on screen and one minimized
HelperProc == [running |-> TRUE, visible |-> TRUE,
               wins |-> <<[id |-> 1, title |-> <<"u">>, min |-> FALSE],
                          [id |-> 2, title |-> <<"t">>, min |-> TRUE]>>]

Worlds ==
    {[a \in Apps |-> CASE a = "A" -> pa [] a = "B" -> pb [] a = "R" -> RaycastProc
                       [] OTHER -> HelperProc] :
        pa \in ProcStates(MaxWinsA), pb \in ProcStates(MaxWinsB)}

\* WindowInfo as stored in a group (types.ts); windowId and bundleId are never
\* read by the window manager
WindowRefs == {[appName |-> <<a>>, windowTitle |-> t] : a \in {"A", "B"}, t \in Titles}

RefLists == UNION {[1..k -> WindowRefs] : k \in 0..MaxRefs}

WinGroupIds == {"g1"}

-----------------------------------------------------------------------------
(* windowManager: the System Events scripts, each run as one script call *)

\* minimizeAllExcept: keepSet = keepWindows.map(w => `${w.appName}|||${w.windowTitle}`)
keepSet(keepWindows) ==
    [i \in 1..Len(keepWindows) |->
        keepWindows[i].appName \o <<"|", "|", "|">> \o keepWindows[i].windowTitle]

\* set winKey to procName & "|||" & winTitle
winKey(name, winTitle) == name \o <<"|", "|", "|">> \o winTitle

\* repeat with k in keepList: if k as text is equal to winKey then shouldKeep
shouldKeep(keepList, key) == \E i \in 1..Len(keepList) : TextEq(keepList[i], key)

\* every process whose visible is true and background only is false
visibleProcs(P) == {a \in Apps : P[a].running /\ P[a].visible /\ ~backgroundOnly(a)}

\* the tool's own process is skipped: if procBundle is not "com.raycast.macos"
notRaycast(a) == procBundle(a) # RaycastBundle

\* the script of minimizeAllExcept
minimizeAllExceptScript(P, keepList) ==
    [a \in Apps |->
        IF a \in visibleProcs(P) /\ notRaycast(a)
        THEN [P[a] EXCEPT !.wins =
                [j \in 1..Len(P[a].wins) |->
                    IF ~shouldKeep(keepList, winKey(procName(a), P[a].wins[j].title))
                       /\ ~P[a].wins[j].min
                    THEN [P[a].wins[j] EXCEPT !.min = TRUE]
                    ELSE P[a].wins[j]]]
        ELSE P[a]]

\* the script of minimizeAllWindows
minimizeAllWindowsScript(P) ==
    [a \in Apps |->
        IF a \in visibleProcs(P) /\ notRaycast(a)
        THEN [P[a] EXCEPT !.wins =
                [j \in 1..Len(P[a].wins) |-> [P[a].wins[j] EXCEPT !.min = TRUE]]]
        ELSE P[a]]

\* (a restoreAllWindows that walks the visible processes only, as the
\* minimizing scripts do)
foregroundProcsVisibleOnly(P) == visibleProcs(P)

\* every process whose background only is false
foregroundProcs(P) == {a \in Apps : P[a].running /\ ~backgroundOnly(a)}

\* the script of restoreAllWindows
restoreAllWindowsScript(P) ==
    [a \in Apps |->
        IF a \in foregroundProcs(P) /\ notRaycast(a)
        THEN [P[a] EXCEPT !.visible = TRUE,
                          !.wins = [j \in 1..Len(P[a].wins) |->
                                        [P[a].wins[j] EXCEPT !.min = FALSE]]]
        ELSE P[a]]

\* process "<name>" of System Events: the running processes with that name
processNamed(P, name) == {a \in Apps : P[a].running /\ procName(a) = name}

\* restoreWindows, first loop: set visible of process "<app>" to true, inside a
\* try block of the script (no process of that name: nothing happens)
setVisibleScript(P, name) ==
    [a \in Apps |-> IF a \in processNamed(P, name) THEN [P[a] EXCEPT !.visible = TRUE]
                                                   ELSE P[a]]

\* (the application names without the Set: one per reference)
appNamesOf(savedWindows) ==
    [i \in 1..Len(savedWindows) |-> savedWindows[i].appName]

\* uniqueApps = [...new Set(savedWindows.map(w => w.appName))]: first occurrences
RECURSIVE uniqueAppsOf(_)
uniqueAppsOf(savedWindows) ==
    IF savedWindows = <<>> THEN <<>>
    ELSE LET n == Len(savedWindows)
             front == uniqueAppsOf(SubSeq(savedWindows, 1, n - 1))
             name == savedWindows[n].appName
         IN IF \E i \in 1..Len(front) : front[i] = name THEN front
            ELSE Append(front, name)

\* (a lookup that tests the front window only)
firstWindowFrontOnly(ws, title) ==
    IF Len(ws) >= 1 /\ ws[1].title = title THEN 1 ELSE 0

\* first window whose name is "<title>": its index, 0 when there is none
firstWindow(ws, title) ==
    IF \E j \in 1..Len(ws) : ws[j].title = title
    THEN CHOOSE j \in 1..Len(ws) :
            ws[j].title = title /\ \A k \in 1..(j - 1) : ws[k].title # title
    ELSE 0

\* (a script that forgets the raise)
raiseNot(ws, j) == ws

\* perform action "AXRaise": the window becomes the first of its process
raise(ws, j) == <<ws[j]>> \o SubSeq(ws, 1, j - 1) \o SubSeq(ws, j + 1, Len(ws))

\* if isMinimized is true then set value of attribute "AXMinimized" to false
unminimize(w) == [w EXCEPT !.min = FALSE]

\* restoreWindows, second loop: the script run for one reference.
\* result "error": the script fails (no such process), runAppleScript rejects.
restoreWindowScript(P, front, name, title) ==
    IF processNamed(P, name) = {}
    THEN [procs |-> P, front |-> front, result |-> "error", win |-> NoWindow]
    ELSE LET a == CHOOSE x \in processNamed(P, name) : TRUE
             j == firstWindow(P[a].wins, title)
         IN IF j = 0
            THEN [procs |-> P, front |-> a, result |-> "notfound", win |-> NoWindow]
            ELSE [procs |-> [P EXCEPT ![a].wins =
                                raise([P[a].wins EXCEPT ![j] = unminimize(@)], j)],
                  front |-> a, result |-> "found",
                  win |-> <<a, P[a].wins[j].id>>]

-----------------------------------------------------------------------------
(* switch-group.tsx: the handlers, one action per stretch between awaits.   *)
(* Every runAppleScript call either runs its script or is rejected.        *)

\* one runAppleScript call, as logged: the function issuing it and what it is for
Call(fn, app, title) == [fn |-> fn, app |-> app, title |-> title]

\* no completed switch to compare with
NoSummary == [valid |-> FALSE, windows |-> <<>>, visible |-> {}, shown |-> 0,
              notFound |-> 0, clean |-> FALSE]

NoToast == [style |-> None, title |-> None, message |-> <<>>]

\* the un-minimized windows, each named by its process and identity
VisibleWindows(P) ==
    UNION {{<<a, P[a].wins[j].id>> : j \in {k \in 1..Len(P[a].wins) : ~P[a].wins[k].min}} :
              a \in {x \in Apps : P[x].running}}

\* the minimized windows of the processes restoreAllWindows is about
MinimizedWindows(P) ==
    UNION {{<<a, P[a].wins[j].id>> : j \in {k \in 1..Len(P[a].wins) : P[a].wins[k].min}} :
              a \in {x \in Apps : P[x].running /\ ~backgroundOnly(x)
                                    /\ procBundle(x) # RaycastBundle}}

Idle == pc \in {"idle", "done"}

\* where restoreWindows goes after minimizeAllExcept returned
afterMinimize(savedWindows) ==
    IF uniqueAppsOf(savedWindows) = <<>> THEN "result" ELSE "visible"

\* switchToGroup, lines 23-24: the action is triggered, the toast is shown
SwitchToGroup(g) ==
    /\ Idle
    /\ pc' = "minimizeAllExcept"
    /\ op' = "switch"
    /\ grp' = g
    /\ toast' = [style |-> "Animated", title |-> "Switching...", message |-> <<g.id>>]
    /\ idx' = 0 /\ shown' = 0 /\ notFound' = <<>> /\ found' = <<>>
    /\ faults' = {} /\ refFault' = {} /\ threw' = FALSE
    /\ minimizedBefore' = 0
    /\ last' = IF last.valid /\ last.windows = g.windows THEN last ELSE NoSummary
    /\ prev' = NoSummary
    /\ frontApp' = "R"
    /\ UNCHANGED <<procs, activeGroupId, keyVars, storeVars, uiVars, mgVars, twoVars>>
    /\ calls' = <<>>

\* (a minimizeAllExcept that logs a rejected script call and returns)
MinimizeAllExceptSwallow ==
    /\ pc = "minimizeAllExcept"
    /\ \E fault \in BOOLEAN :
          /\ procs' = IF fault THEN procs
                       ELSE minimizeAllExceptScript(procs, keepSet(grp.windows))
          /\ faults' = IF fault THEN faults \cup {"minimizeAllExcept"} ELSE faults
    /\ pc' = afterMinimize(grp.windows)
    /\ idx' = 1
    /\ UNCHANGED <<frontApp, op, grp, shown, notFound, found, minimizedBefore, refFault,
                   threw, toast, activeGroupId, last, prev, keyVars, storeVars, uiVars,
                   mgVars, twoVars>>
    /\ calls' = Append(calls, Call("minimizeAllExcept", <<>>, <<>>))

\* switchToGroup line 28: await minimizeAllExcept(group.windows); a rejected
\* script call is rethrown (lines 297-302) and lands in the handler's catch
MinimizeAllExcept ==
    /\ pc = "minimizeAllExcept"
    /\ \E fault \in BOOLEAN :
          IF fault
          THEN /\ pc' = "catch"
               /\ faults' = faults \cup {"minimizeAllExcept"}
               /\ UNCHANGED <<procs, idx>>
          ELSE /\ procs' = minimizeAllExceptScript(procs, keepSet(grp.windows))
               /\ pc' = afterMinimize(grp.windows)
               /\ idx' = 1
               /\ UNCHANGED faults
    /\ UNCHANGED <<frontApp, op, grp, shown, notFound, found, minimizedBefore, refFault,
                   threw, toast, activeGroupId, last, prev, keyVars, storeVars, uiVars,
                   mgVars, twoVars>>
    /\ calls' = Append(calls, Call("minimizeAllExcept", <<>>, <<>>))

\* restoreWindows lines 316-329: one iteration of the visibility loop; a
\* rejected call is swallowed by the empty catch
RestoreVisible ==
    /\ pc = "visible"
    /\ LET apps == uniqueAppsOf(grp.windows)
       IN /\ \E fault \in BOOLEAN :
                /\ procs' = IF fault THEN procs ELSE setVisibleScript(procs, apps[idx])
                /\ faults' = IF fault THEN faults \cup {"visible"} ELSE faults
          /\ IF idx < Len(apps)
             THEN idx' = idx + 1 /\ pc' = "visible"
             ELSE idx' = 1 /\ pc' = "restore"
    /\ UNCHANGED <<frontApp, op, grp, shown, notFound, found, minimizedBefore, refFault,
                   threw, toast, activeGroupId, last, prev, keyVars, storeVars, uiVars,
                   mgVars, twoVars>>
    /\ calls' = Append(calls, Call("visible", uniqueAppsOf(grp.windows)[idx], <<>>))

\* (a per-window loop without its catch: a rejected call leaves restoreWindows)
RestoreWindowAbort ==
    /\ pc = "restore"
    /\ LET w == grp.windows[idx]
           r == restoreWindowScript(procs, frontApp, w.appName, w.windowTitle)
       IN \E fault \in BOOLEAN :
             IF fault
             THEN /\ pc' = "catch"
                  /\ refFault' = refFault \cup {idx}
                  /\ UNCHANGED <<procs, frontApp, shown, notFound, found, idx>>
             ELSE /\ procs' = r.procs
                  /\ frontApp' = r.front
                  /\ found' = Append(found, r.win)
                  /\ IF r.result = "found"
                     THEN shown' = shown + 1 /\ UNCHANGED notFound
                     ELSE notFound' = Append(notFound, w) /\ UNCHANGED shown
                  /\ UNCHANGED refFault
                  /\ IF idx < Len(grp.windows)
                     THEN idx' = idx + 1 /\ pc' = "restore"
                     ELSE idx' = idx /\ pc' = "result"
    /\ UNCHANGED <<op, grp, faults, minimizedBefore, threw, toast, activeGroupId, last,
                   prev, keyVars, storeVars, uiVars, mgVars, twoVars>>
    /\ calls' = Append(calls, Call("restoreWindow", grp.windows[idx].appName,
                                    grp.windows[idx].windowTitle))

\* restoreWindows lines 332-367: one iteration of the per-window loop
RestoreWindow ==
    /\ pc = "restore"
    /\ LET w == grp.windows[idx]
           r == restoreWindowScript(procs, frontApp, w.appName, w.windowTitle)
       IN \E fault \in BOOLEAN :
             IF fault
             THEN /\ notFound' = Append(notFound, w)
                  /\ found' = Append(found, NoWindow)
                  /\ refFault' = refFault \cup {idx}
                  /\ UNCHANGED <<procs, frontApp, shown>>
             ELSE /\ procs' = r.procs
                  /\ frontApp' = r.front
                  /\ found' = Append(found, r.win)
                  /\ IF r.result = "found"
                     THEN shown' = shown + 1 /\ UNCHANGED notFound
                     ELSE notFound' = Append(notFound, w) /\ UNCHANGED shown
                  /\ UNCHANGED refFault
    /\ IF idx < Len(grp.windows)
       THEN idx' = idx + 1 /\ pc' = "restore"
       ELSE idx' = idx /\ pc' = "result"
    /\ UNCHANGED <<op, grp, faults, minimizedBefore, threw, toast, activeGroupId, last,
                   prev, keyVars, storeVars, uiVars, mgVars, twoVars>>
    /\ calls' = Append(calls, Call("restoreWindow", grp.windows[idx].appName,
                                    grp.windows[idx].windowTitle))

\* (a classification that reports a switch that showed nothing as a success)
resultToastNeverFailure(n, missing, g) ==
    IF Len(missing) > 0
    THEN [style |-> "Success", title |-> "Partially Switched",
          message |-> <<n, Len(missing)>>]
    ELSE [style |-> "Success", title |-> "Success", message |-> <<n, g.id>>]

\* manage-groups.tsx, handleSwitchToGroup lines 65-77: the toast for a
\* SwitchResult
handleSwitchToGroupToast(n, missing, g) ==
    IF n = 0
    THEN [style |-> "Failure", title |-> "No Windows Found", message |-> <<>>]
    ELSE IF Len(missing) > 0
         THEN [style |-> "Success", title |-> "Partially Switched",
               message |-> <<n, Len(missing)>>]
         ELSE [style |-> "Success", title |-> "Switched Successfully",
               message |-> <<n, g.id>>]

\* switchToGroup lines 35-47: the toast for a SwitchResult
resultToast(n, missing, g) ==
    IF n = 0
    THEN [style |-> "Failure", title |-> "No Windows Found", message |-> <<>>]
    ELSE IF Len(missing) > 0
         THEN [style |-> "Success", title |-> "Partially Switched",
               message |-> <<n, Len(missing)>>]
         ELSE [style |-> "Success", title |-> "Success", message |-> <<n, g.id>>]

\* switchToGroup lines 31-47: restoreWindows returned {shown, notFound}
SwitchResult ==
    /\ pc = "result"
    /\ pc' = "done"
    /\ activeGroupId' = grp.id
    /\ toast' = resultToast(shown, notFound, grp)
    /\ prev' = last
    /\ last' = [valid |-> TRUE, windows |-> grp.windows, visible |-> VisibleWindows(procs),
                shown |-> shown, notFound |-> Len(notFound),
                clean |-> (faults = {} /\ refFault = {})]
    /\ UNCHANGED <<procs, frontApp, op, grp, idx, shown, notFound, found, faults,
                   minimizedBefore, refFault, threw, keyVars, storeVars, uiVars, mgVars, twoVars>>
    /\ UNCHANGED calls

\* (a catch block that logs the error and leaves the toast as it is)
HandlerCatchSilent ==
    /\ pc = "catch"
    /\ pc' = "done"
    /\ threw' = TRUE
    /\ last' = NoSummary /\ prev' = NoSummary
    /\ UNCHANGED <<procs, frontApp, op, grp, idx, shown, notFound, found, faults,
                   minimizedBefore, refFault, activeGroupId, toast, keyVars, storeVars, uiVars,
                   mgVars, twoVars>>
    /\ UNCHANGED calls

\* switchToGroup lines 48-52 and showAllWindows lines 65-69: the catch block
HandlerCatch ==
    /\ pc = "catch"
    /\ pc' = "done"
    /\ threw' = TRUE
    /\ toast' = [style |-> "Failure", title |-> "Error", message |-> <<"error">>]
    /\ last' = NoSummary /\ prev' = NoSummary
    /\ UNCHANGED <<procs, frontApp, op, grp, idx, shown, notFound, found, faults,
                   minimizedBefore, refFault, activeGroupId, keyVars, storeVars, uiVars,
                   mgVars, twoVars>>
    /\ UNCHANGED calls

\* showAllWindows line 56: the action is triggered, the toast is shown
ShowAllWindows ==
    /\ Idle
    /\ pc' = "restoreAllWindows"
    /\ op' = "showAll"
    /\ toast' = [style |-> "Animated", title |-> "Restoring All Windows...",
                 message |-> <<>>]
    /\ idx' = 0 /\ shown' = 0 /\ notFound' = <<>> /\ found' = <<>>
    /\ faults' = {} /\ refFault' = {} /\ threw' = FALSE
    /\ minimizedBefore' = Cardinality(MinimizedWindows(procs))
    /\ last' = NoSummary /\ prev' = NoSummary
    /\ frontApp' = "R"
    /\ UNCHANGED <<procs, grp, activeGroupId, keyVars, storeVars, uiVars, mgVars, twoVars>>
    /\ calls' = <<>>

\* showAllWindows lines 59-64: await restoreAllWindows(), then the success toast;
\* a rejected script call is rethrown (lines 399-404)
RestoreAllWindows ==
    /\ pc = "restoreAllWindows"
    /\ \E fault \in BOOLEAN :
          IF fault
          THEN /\ pc' = "catch"
               /\ faults' = faults \cup {"restoreAllWindows"}
               /\ UNCHANGED <<procs, activeGroupId, toast>>
          ELSE /\ UNCHANGED faults
               /\ procs' = restoreAllWindowsScript(procs)
               /\ pc' = "done"
               /\ activeGroupId' = None
               /\ toast' = [style |-> "Success", title |-> "All Windows Restored",
                            message |-> <<>>]
    /\ UNCHANGED <<frontApp, op, grp, idx, shown, notFound, found, minimizedBefore,
                   refFault, threw, last, prev, keyVars, storeVars, uiVars, mgVars, twoVars>>
    /\ calls' = Append(calls, Call("restoreAllWindows", <<>>, <<>>))

\* windowManager.minimizeAllWindows, lines 216-248, called on its own
MinimizeAllWindows ==
    /\ Idle
    /\ pc' = "done"
    /\ op' = "minimizeAll"
    /\ \E fault \in BOOLEAN :
          /\ threw' = fault
          /\ faults' = IF fault THEN {"minimizeAllWindows"} ELSE {}
          /\ procs' = IF fault THEN procs ELSE minimizeAllWindowsScript(procs)
    /\ toast' = NoToast
    /\ idx' = 0 /\ shown' = 0 /\ notFound' = <<>> /\ found' = <<>>
    /\ refFault' = {} /\ minimizedBefore' = 0
    /\ last' = NoSummary /\ prev' = NoSummary
    /\ UNCHANGED <<frontApp, grp, activeGroupId, keyVars, storeVars, uiVars, mgVars, twoVars>>
    /\ calls' = <<Call("minimizeAllWindows", <<>>, <<>>)>>

NoGroup == [id |-> None, windows |-> <<>>]

InitKeyIdle ==
    /\ keyRef = [appName |-> <<>>, windowTitle |-> <<>>]
    /\ keyWin = [appName |-> <<>>, windowTitle |-> <<>>]
    /\ keyPc = "off"
    /\ keyKeep = FALSE /\ keyUsed = FALSE

\* a storage caller that has not been called
IdleTask == [pc |-> "idle", kind |-> None, name |-> <<>>, sel |-> <<>>, id |-> -1,
             updates |-> [field |-> None, value |-> <<>>], groups |-> <<>>,
             storeBefore |-> <<>>, calledCreate |-> FALSE, loadFault |-> FALSE,
             loaded |-> <<>>, readFault |-> FALSE, saveFault |-> FALSE,
             clock |-> -1, stale |-> FALSE,
             outcome |-> None, toast |-> [style |-> None, title |-> None]]

Tasks == {1, 2}

InitStoreIdle == store = <<>> /\ now = 0 /\ task = [t \in Tasks |-> IdleTask]

\* loadOpenWindows is not running
LoaderIdle == [pc |-> "idle", windows |-> <<>>]

\* no ConfirmGroupForm is pushed
NoForm == [open |-> FALSE, selectedWindows |-> <<>>]

\* the create-group command is not open
InitUiIdle ==
    /\ isLoading = FALSE /\ openWindows = <<>> /\ selectedWindows = {}
    /\ loader = LoaderIdle /\ form = NoForm

\* loadGroupsData is not running and no deletion is under way
ListerIdle == [pc |-> "idle", id |-> None, from |-> None]

\* the manage-groups command is not open
InitMgIdle == listGroups = <<>> /\ lister = ListerIdle

Handlers == {1, 2}

\* a switch handler that has not been triggered
IdleSwitch == [pc |-> "idle", grp |-> NoGroup, idx |-> 0, shown |-> 0,
               notFound |-> <<>>, fault |-> FALSE]

\* no two switch handlers overlap
InitTwoIdle == sw = [h \in Handlers |-> IdleSwitch] /\ swStart = <<>>

InitWin ==
    /\ procs \in Worlds
    /\ frontApp = "R"
    /\ pc = "idle" /\ op = None /\ grp = NoGroup
    /\ idx = 0 /\ shown = 0 /\ notFound = <<>> /\ found = <<>>
    /\ faults = {} /\ refFault = {} /\ threw = FALSE
    /\ minimizedBefore = 0
    /\ toast = NoToast
    /\ activeGroupId = None
    /\ last = NoSummary /\ prev = NoSummary
    /\ calls = <<>>
    /\ InitKeyIdle
    /\ InitStoreIdle
    /\ InitUiIdle
    /\ InitMgIdle
    /\ InitTwoIdle

NextWin ==
    \/ \E id \in WinGroupIds, ws \in RefLists : SwitchToGroup([id |-> id, windows |-> ws])
    \/ MinimizeAllExcept
    \/ RestoreVisible
    \/ RestoreWindow
    \/ SwitchResult
    \/ HandlerCatch
    \/ ShowAllWindows
    \/ RestoreAllWindows
    \/ MinimizeAllWindows

SpecWin == InitWin /\ [][NextWin]_vars

\* Every awaited call (runAppleScript, showToast) eventually returns or
\* rejects, so a handler that has started takes each of its steps; nothing
\* forces the user to trigger an action.
FairWin ==
    /\ WF_vars(MinimizeAllExcept)
    /\ WF_vars(RestoreVisible)
    /\ WF_vars(RestoreWindow)
    /\ WF_vars(SwitchResult)
    /\ WF_vars(HandlerCatch)
    /\ WF_vars(RestoreAllWindows)

\* the worlds the progress properties start from: application A with at most
\* MaxWinsB windows, application B absent or on screen with one window
LiveWorlds ==
    {w \in Worlds :
        /\ Len(w["A"].wins) <= MaxWinsB
        /\ w["B"] \in {[running |-> FALSE, visible |-> FALSE, wins |-> <<>>],
                        [running |-> TRUE, visible |-> TRUE,
                         wins |-> <<[id |-> 1, title |-> <<"t">>, min |-> FALSE]>>]}}

InitWinLive == InitWin /\ procs \in LiveWorlds

SpecWinFair == InitWinLive /\ [][NextWin]_vars /\ FairWin

-----------------------------------------------------------------------------
(* Properties of the switch and of the global restore (SpecWin) *)

\* the processes a switch is about: running, not background-only, not the tool
UserProcs(P) ==
    {a \in Apps : P[a].running /\ ~backgroundOnly(a) /\ procBundle(a) # RaycastBundle}

\* (appName, windowTitle) is among the references ws
RefNames(ws, name, title) ==
    \E i \in 1..Len(ws) : ws[i].appName = name /\ ws[i].windowTitle = title

\* a switch has completed and its handler did not go through the catch block
SwitchDone == pc = "done" /\ op = "switch" /\ ~threw

\* position of the window with identity id among the windows of process a
PosOf(P, a, id) == CHOOSE j \in 1..Len(P[a].wins) : P[a].wins[j].id = id

\* the references of ws at the indices S, in list order
RECURSIVE RefsAt(_, _)
RefsAt(ws, S) ==
    IF ws = <<>> THEN <<>>
    ELSE LET n == Len(ws)
             r == RefsAt(SubSeq(ws, 1, n - 1), S)
         IN IF n \in S THEN Append(r, ws[n]) ELSE r

\* the reference's application is running and has a live window with that title
HasLive(P, ref) ==
    \E a \in Apps : /\ P[a].running
                    /\ procName(a) = ref.appName
                    /\ \E j \in 1..Len(P[a].wins) : P[a].wins[j].title = ref.windowTitle

\* C1: after a switch to G that completed without a whole-phase fault, every
\* live window of a non-background, non-tool application whose (appName,
\* windowTitle) is not among G's references is minimized.
C1_OthersMinimized ==
    (SwitchDone /\ faults = {}) =>
        \A a \in UserProcs(procs) : \A j \in 1..Len(procs[a].wins) :
            ~RefNames(grp.windows, procName(a), procs[a].wins[j].title)
                => procs[a].wins[j].min

\* C1, the same for the applications that are visible when the switch ends
C1_OthersMinimizedOnScreen ==
    (SwitchDone /\ faults = {} /\ refFault = {}) =>
        \A a \in UserProcs(procs) : \A j \in 1..Len(procs[a].wins) :
            (procs[a].visible
             /\ ~RefNames(grp.windows, procName(a), procs[a].wins[j].title))
                => procs[a].wins[j].min

\* C2: after a switch to G, every live window of G that was found live is not
\* minimized and is the frontmost window of its application.
C2_FoundFrontmost ==
    SwitchDone =>
        \A i \in 1..Len(found) :
            found[i] # NoWindow =>
                LET a == found[i][1]
                    j == PosOf(procs, a, found[i][2])
                IN ~procs[a].wins[j].min /\ j = 1

\* C2 as amended: every window found for a reference of G is not minimized, and
\* the window found for the last found reference of each application is the
\* frontmost window of that application.
C2_FoundShownLastFrontmost ==
    SwitchDone =>
        \A i \in 1..Len(found) :
            found[i] # NoWindow =>
                LET a == found[i][1]
                    j == PosOf(procs, a, found[i][2])
                    isLast == \A k \in (i + 1)..Len(found) :
                                  found[k] = NoWindow \/ found[k][1] # a
                IN /\ ~procs[a].wins[j].min
                   /\ isLast => j = 1

\* C2 witness: a switch found two different windows of one application
C2_Witness ==
    /\ SwitchDone
    /\ Len(found) = 2
    /\ found[1] # NoWindow /\ found[2] # NoWindow
    /\ found[1][1] = found[2][1] /\ found[1][2] # found[2][2]

\* C3: a switch repeated at once on the same group, with no script call
\* rejected in either run, ends with the same un-minimized windows, the same
\* shown count and the same number of references not found as the first run.
C3_Idempotent ==
    (SwitchDone /\ prev.valid /\ prev.clean /\ last.clean) =>
        /\ VisibleWindows(procs) = prev.visible
        /\ shown = prev.shown
        /\ Len(notFound) = prev.notFound

\* C4: restoreWindows partitions its list: shown counts the references whose
\* application is running with a live window of that title, notFound is the
\* rest in list order.
C4_Partition ==
    pc = "result" =>
        LET ws == grp.windows
            live == {i \in 1..Len(ws) : HasLive(procs, ws[i])}
        IN /\ shown = Cardinality(live)
           /\ notFound = RefsAt(ws, (1..Len(ws)) \ live)
           /\ shown + Len(notFound) = Len(ws)

\* C4 as amended: shown counts the references whose script call was not
\* rejected and whose application is running with a live window of that title;
\* notFound is the rest (no live match, or a rejected call) in list order.
C4_PartitionUpToFaults ==
    pc = "result" =>
        LET ws == grp.windows
            live == {i \in 1..Len(ws) : HasLive(procs, ws[i]) /\ i \notin refFault}
        IN /\ shown = Cardinality(live)
           /\ notFound = RefsAt(ws, (1..Len(ws)) \ live)
           /\ shown + Len(notFound) = Len(ws)

\* C4 witness: a reference whose application is not running is in notFound
\* while another reference of the list was shown
C4_Witness ==
    /\ pc = "result"
    /\ shown = 1
    /\ Len(notFound) = 1
    /\ \A a \in Apps : procs[a].running => procName(a) # notFound[1].appName
    /\ refFault = {}

\* C5: after restoreAllWindows completed without fault, no window of a
\* non-background application other than the tool is minimized.
C5_RestoreAllLeavesNoneMinimized ==
    (pc = "done" /\ op = "showAll" /\ ~threw) =>
        \A a \in UserProcs(procs) : \A j \in 1..Len(procs[a].wins) :
            ~procs[a].wins[j].min

\* C5 witness: restoreAllWindows completed from a state with three minimized
\* windows of user applications; the background-only process keeps its own
C5_Witness ==
    /\ pc = "done" /\ op = "showAll" /\ ~threw
    /\ minimizedBefore = 3
    /\ \E i \in 1..2 : procs["H"].wins[i].min

-----------------------------------------------------------------------------
(* The identity test on windows: the keys of minimizeAllExcept and of      *)
(* create-group's loadOpenWindows, applied to one stored reference and one *)
(* live window (SpecKey)                                                   *)

KeyChars == {"a", "A", "|", ":"}

\* the texts of at most n characters
Texts(n) == UNION {[1..k -> KeyChars] : k \in 0..n}

\* an application name and a window title, both non-empty
KeyPairs ==
    {[appName |-> x, windowTitle |-> y] :
        <<x, y>> \in {q \in Texts(MaxKeyLen) \X Texts(MaxKeyLen) :
                        Len(q[1]) >= 1 /\ Len(q[2]) >= 1
                        /\ Len(q[1]) + Len(q[2]) <= MaxKeyLen}}

\* create-group: getWindowKey(window) = `${window.appName}::${window.windowTitle}`
getWindowKey(w) == w.appName \o <<":", ":">> \o w.windowTitle

\* loadOpenWindows: usedKeys, the keys of the windows of the existing groups
usedKeys(existingGroups) ==
    UNION {{getWindowKey(existingGroups[g].windows[i]) :
                i \in 1..Len(existingGroups[g].windows)} :
              g \in 1..Len(existingGroups)}

\* loadOpenWindows: windows.filter(w => !usedKeys.has(key of w))
available(windows, existingGroups) ==
    SelectSeq(windows, LAMBDA w : getWindowKey(w) \notin usedKeys(existingGroups))

\* minimizeAllExcept decides whether the live window stays, with the stored
\* reference as its keep list
KeyMinimizeAllExcept ==
    /\ keyPc = "minimizeAllExcept"
    /\ keyKeep' = shouldKeep(keepSet(<<keyRef>>),
                             winKey(keyWin.appName, keyWin.windowTitle))
    /\ keyPc' = "loadOpenWindows"
    /\ UNCHANGED <<keyRef, keyWin, keyUsed, winVars, storeVars, uiVars, mgVars, twoVars>>

\* loadOpenWindows decides whether the live window is already assigned, with
\* the stored reference as the only window of the only group
KeyLoadOpenWindows ==
    /\ keyPc = "loadOpenWindows"
    /\ keyUsed' = (available(<<keyWin>>, <<[windows |-> <<keyRef>>]>>) = <<>>)
    /\ keyPc' = "done"
    /\ UNCHANGED <<keyRef, keyWin, keyKeep, winVars, storeVars, uiVars, mgVars, twoVars>>

InitWinIdle ==
    /\ procs = [a \in Apps |-> IF a = "R" THEN RaycastProc
                               ELSE IF a = "H" THEN HelperProc
                               ELSE [running |-> FALSE, visible |-> FALSE, wins |-> <<>>]]
    /\ frontApp = "R"
    /\ pc = "idle" /\ op = None /\ grp = NoGroup
    /\ idx = 0 /\ shown = 0 /\ notFound = <<>> /\ found = <<>>
    /\ faults = {} /\ refFault = {} /\ threw = FALSE
    /\ minimizedBefore = 0
    /\ toast = NoToast
    /\ activeGroupId = None
    /\ last = NoSummary /\ prev = NoSummary
    /\ calls = <<>>

InitKey ==
    /\ keyRef \in KeyPairs
    /\ keyWin \in KeyPairs
    /\ keyPc = "minimizeAllExcept"
    /\ keyKeep = FALSE /\ keyUsed = FALSE
    /\ InitWinIdle
    /\ InitStoreIdle
    /\ InitUiIdle
    /\ InitMgIdle
    /\ InitTwoIdle

NextKey == KeyMinimizeAllExcept \/ KeyLoadOpenWindows

SpecKey == InitKey /\ [][NextKey]_vars

\* C6: the identity test used (equality of the concatenated keys, in
\* minimizeAllExcept's keep list and in the usedKeys filter) is true exactly
\* when the application names are equal and the window titles are equal,
\* case-sensitively.
C6_KeyIffPair ==
    keyPc = "done" =>
        LET same == keyRef.appName = keyWin.appName
                    /\ keyRef.windowTitle = keyWin.windowTitle
        IN (keyKeep <=> same) /\ (keyUsed <=> same)

\* C6 for the usedKeys filter alone
C6_UsedKeyIffPair ==
    keyPc = "done" =>
        (keyUsed <=> (keyRef.appName = keyWin.appName
                      /\ keyRef.windowTitle = keyWin.windowTitle))

\* C6 for the keep list alone, on texts that differ in no letter's case
C6_KeepKeyIffPair ==
    (keyPc = "done"
     /\ (LowerStr(keyRef.appName) = LowerStr(keyWin.appName)
            => keyRef.appName = keyWin.appName)
     /\ (LowerStr(keyRef.windowTitle) = LowerStr(keyWin.windowTitle)
            => keyRef.windowTitle = keyWin.windowTitle)) =>
        (keyKeep <=> (keyRef.appName = keyWin.appName
                      /\ keyRef.windowTitle = keyWin.windowTitle))

-----------------------------------------------------------------------------
(* storage.ts and the create-group form (SpecStore).  A group is            *)
(* [id, name, windows, createdAt, updatedAt]; id is Date.now().toString(),  *)
(* the time stamps are new Date().toISOString(), all read from `now`.       *)

\* white space as String.prototype.trim sees it: the space and the line feed
IsWhite(c) == c \in {" ", "\n"}

\* String.prototype.trim
RECURSIVE trim(_)
trim(t) ==
    IF t = <<>> THEN t
    ELSE IF IsWhite(Head(t)) THEN trim(Tail(t))
    ELSE IF IsWhite(t[Len(t)]) THEN trim(SubSeq(t, 1, Len(t) - 1))
    ELSE t

\* what the user may type into the form's name field
FormNames == {<<>>, <<" ">>, <<"W">>, <<"w">>, <<" ", "w">>, <<"V">>}

\* what the user may have selected before opening the form
FormSelections ==
    {<<[appName |-> <<"A">>, windowTitle |-> <<"t">>]>>,
     <<[appName |-> <<"A">>, windowTitle |-> <<"u">>],
       [appName |-> <<"B">>, windowTitle |-> <<"t">>]>>}

\* Partial<WindowGroup> handed to updateGroup, one field at a time
GroupUpdates ==
    {[field |-> "name", value |-> n] : n \in {<<"w">>, <<"V">>}}
    \cup {[field |-> "windows", value |-> <<>>]}
    \cup {[field |-> "id", value |-> c] : c \in 0..MaxClock}
    \cup {[field |-> f, value |-> 0] : f \in {"createdAt", "updatedAt"}}

\* loadGroups: the stored groups, or [] when reading or parsing faults
loadGroupsIgnoringFault(stored, fault) == stored

loadGroups(stored, fault) == IF fault THEN <<>> ELSE stored

\* (a saveGroups that logs a failed write and returns)
saveGroupsSwallow(stored, groups, fault) ==
    [store |-> IF fault THEN stored ELSE groups, threw |-> FALSE]

\* saveGroups: the item is written, or the write faults and the error is
\* rethrown (lines 30-33)
saveGroups(stored, groups, fault) ==
    [store |-> IF fault THEN stored ELSE groups, threw |-> fault]

\* handleSubmit line 294: existingGroups.some(g => g.name.toLowerCase() === ...)
nameExistsExact(existingGroups, name) ==
    \E i \in 1..Len(existingGroups) : existingGroups[i].name = name

nameExists(existingGroups, name) ==
    \E i \in 1..Len(existingGroups) :
        LowerStr(existingGroups[i].name) = LowerStr(name)

\* createGroup lines 42-49: the new group, pushed
pushNewGroup(groups, name, windows, clock) ==
    Append(groups, [id |-> clock, name |-> name, windows |-> windows,
                    createdAt |-> clock, updatedAt |-> clock])

\* (a lookup that falls back on the first group when the id matches none)
findIndexOrFirst(groups, id) ==
    IF \E i \in 1..Len(groups) : groups[i].id = id
    THEN CHOOSE i \in 1..Len(groups) :
            groups[i].id = id /\ \A k \in 1..(i - 1) : groups[k].id # id
    ELSE IF groups = <<>> THEN 0 ELSE 1

\* updateGroup line 60: groups.findIndex(g => g.id === id), 0 for -1
findIndex(groups, id) ==
    IF \E i \in 1..Len(groups) : groups[i].id = id
    THEN CHOOSE i \in 1..Len(groups) :
            groups[i].id = id /\ \A k \in 1..(i - 1) : groups[k].id # id
    ELSE 0

\* updateGroup lines 66-70: {...groups[index], ...updates, updatedAt: now}
applyUpdates(g, updates, clock) ==
    [f \in DOMAIN g |->
        IF f = "updatedAt" THEN clock
        ELSE IF f = updates.field THEN updates.value
        ELSE g[f]]

\* deleteGroup line 80: groups.filter(g => g.id !== id)
filterOutFirstOnly(groups, id) ==
    IF findIndex(groups, id) = 0 THEN groups
    ELSE SubSeq(groups, 1, findIndex(groups, id) - 1)
         \o SubSeq(groups, findIndex(groups, id) + 1, Len(groups))

filterOut(groups, id) == SelectSeq(groups, LAMBDA g : g.id # id)

StoreIdle(t) == task[t].pc \in {"idle", "done"}

Finish(t, outcome, style, title) ==
    [task[t] EXCEPT !.pc = "done", !.outcome = outcome,
                    !.toast = [style |-> style, title |-> title]]

\* handleSubmit lines 286-291: the form is submitted
Submit(t, value, windowsToSave) ==
    /\ StoreIdle(t)
    /\ Len(store) < MaxGroups
    /\ LET started == [IdleTask EXCEPT !.kind = "submit", !.name = trim(value),
                                       !.sel = windowsToSave, !.storeBefore = store]
       IN task' = [task EXCEPT ![t] =
                    IF trim(value) = <<>>
                    THEN [started EXCEPT !.pc = "done", !.outcome = "nameRequired",
                            !.toast = [style |-> "Failure",
                                       title |-> "Group name is required"]]
                    ELSE [started EXCEPT !.pc = "submitLoad"]]
    /\ UNCHANGED <<store, now, winVars, keyVars, uiVars, mgVars, twoVars>>

\* handleSubmit lines 293-297: existing groups loaded, the name compared
SubmitLoad(t) ==
    /\ task[t].pc = "submitLoad"
    /\ \E fault \in BOOLEAN :
          LET existingGroups == loadGroups(store, fault)
          IN task' = [task EXCEPT ![t] =
                IF nameExists(existingGroups, task[t].name)
                THEN [Finish(t, "nameExists", "Failure",
                             "A group with this name already exists")
                        EXCEPT !.loaded = existingGroups, !.readFault = fault]
                ELSE [task[t] EXCEPT !.pc = "createLoad", !.calledCreate = TRUE,
                                     !.loadFault = fault,
                                     !.loaded = existingGroups, !.readFault = fault]]
    /\ UNCHANGED <<store, now, winVars, keyVars, uiVars, mgVars, twoVars>>

\* createGroup lines 40-49: groups loaded, the new group pushed
CreateLoad(t) ==
    /\ task[t].pc = "createLoad"
    /\ \E fault \in BOOLEAN :
          task' = [task EXCEPT ![t] =
                [task[t] EXCEPT !.pc = "createSave",
                                !.loadFault = (task[t].loadFault \/ fault),
                                !.loaded = loadGroups(store, fault),
                                !.readFault = fault,
                                !.groups = pushNewGroup(loadGroups(store, fault),
                                             task[t].name, task[t].sel, now)]]
    /\ UNCHANGED <<store, now, winVars, keyVars, uiVars, mgVars, twoVars>>

\* (a createGroup whose save appends the new group to what is stored at the
\* time of the save instead of writing the list it loaded)
CreateSaveMerging(t) ==
    /\ task[t].pc = "createSave"
    /\ \E fault \in BOOLEAN :
          LET saved == saveGroups(store,
                          Append(store, task[t].groups[Len(task[t].groups)]), fault)
          IN /\ store' = saved.store
             /\ task' = [task EXCEPT ![t] =
                    [(IF saved.threw
                      THEN Finish(t, "saveFailed", "Failure", "Error Creating Group")
                      ELSE Finish(t, "created", "Success", "Group Created"))
                        EXCEPT !.saveFault = fault,
                               !.stale = (store # task[t].loaded)]]
    /\ UNCHANGED <<now, winVars, keyVars, uiVars, mgVars, twoVars>>

\* createGroup line 50 and handleSubmit lines 308-313: the save, then the toast
CreateSave(t) ==
    /\ task[t].pc = "createSave"
    /\ \E fault \in BOOLEAN :
          LET saved == saveGroups(store, task[t].groups, fault)
          IN /\ store' = saved.store
             /\ task' = [task EXCEPT ![t] =
                    [(IF saved.threw
                      THEN Finish(t, "saveFailed", "Failure", "Error Creating Group")
                      ELSE Finish(t, "created", "Success", "Group Created"))
                        EXCEPT !.saveFault = fault,
                               !.stale = (store # task[t].loaded)]]
    /\ UNCHANGED <<now, winVars, keyVars, uiVars, mgVars, twoVars>>

\* updateGroup(id, updates) is called
UpdateGroup(t, id, updates) ==
    /\ StoreIdle(t)
    /\ task' = [task EXCEPT ![t] =
                 [IdleTask EXCEPT !.kind = "update", !.pc = "updateLoad", !.id = id,
                                  !.updates = updates, !.storeBefore = store]]
    /\ UNCHANGED <<store, now, winVars, keyVars, uiVars, mgVars, twoVars>>

\* updateGroup lines 59-70: groups loaded, the group looked up and replaced
UpdateLoad(t) ==
    /\ task[t].pc = "updateLoad"
    /\ \E fault \in BOOLEAN :
          LET groups == loadGroups(store, fault)
              index == findIndex(groups, task[t].id)
          IN task' = [task EXCEPT ![t] =
                IF index = 0
                THEN [Finish(t, "notFound", None, None)
                        EXCEPT !.loadFault = fault, !.loaded = groups,
                               !.readFault = fault]
                ELSE [task[t] EXCEPT !.pc = "updateSave", !.loadFault = fault,
                        !.loaded = groups, !.readFault = fault, !.clock = now,
                        !.groups = [groups EXCEPT ![index] =
                                        applyUpdates(groups[index], task[t].updates, now)]]]
    /\ UNCHANGED <<store, now, winVars, keyVars, uiVars, mgVars, twoVars>>

\* updateGroup line 72: the save
UpdateSave(t) ==
    /\ task[t].pc = "updateSave"
    /\ \E fault \in BOOLEAN :
          LET saved == saveGroups(store, task[t].groups, fault)
          IN /\ store' = saved.store
             /\ task' = [task EXCEPT ![t] =
                    [Finish(t, IF saved.threw THEN "saveFailed" ELSE "updated", None, None)
                        EXCEPT !.saveFault = fault,
                               !.stale = (store # task[t].loaded)]]
    /\ UNCHANGED <<now, winVars, keyVars, uiVars, mgVars, twoVars>>

\* deleteGroup(id) is called
DeleteGroup(t, id) ==
    /\ StoreIdle(t)
    /\ task' = [task EXCEPT ![t] =
                 [IdleTask EXCEPT !.kind = "delete", !.pc = "deleteLoad", !.id = id,
                                  !.storeBefore = store]]
    /\ UNCHANGED <<store, now, winVars, keyVars, uiVars, mgVars, twoVars>>

\* deleteGroup lines 79-80: groups loaded and filtered
DeleteLoad(t) ==
    /\ task[t].pc = "deleteLoad"
    /\ \E fault \in BOOLEAN :
          task' = [task EXCEPT ![t] =
                [task[t] EXCEPT !.pc = "deleteSave", !.loadFault = fault,
                                !.loaded = loadGroups(store, fault),
                                !.readFault = fault,
                                !.groups = filterOut(loadGroups(store, fault),
                                                     task[t].id)]]
    /\ UNCHANGED <<store, now, winVars, keyVars, uiVars, mgVars, twoVars>>

\* deleteGroup line 81: the save
DeleteSave(t) ==
    /\ task[t].pc = "deleteSave"
    /\ \E fault \in BOOLEAN :
          LET saved == saveGroups(store, task[t].groups, fault)
          IN /\ store' = saved.store
             /\ task' = [task EXCEPT ![t] =
                    [Finish(t, IF saved.threw THEN "saveFailed" ELSE "deleted", None, None)
                        EXCEPT !.saveFault = fault,
                               !.stale = (store # task[t].loaded)]]
    /\ UNCHANGED <<now, winVars, keyVars, uiVars, mgVars, twoVars>>

\* the clock advances
Tick ==
    /\ now < MaxClock
    /\ now' = now + 1
    /\ UNCHANGED <<store, task, winVars, keyVars, uiVars, mgVars, twoVars>>

InitStore ==
    /\ store = <<>> /\ now = 0 /\ task = [t \in Tasks |-> IdleTask]
    /\ InitWinIdle
    /\ InitKeyIdle
    /\ InitUiIdle
    /\ InitMgIdle
    /\ InitTwoIdle

\* one caller at a time
NextStore ==
    \/ \E value \in FormNames, sel \in FormSelections : Submit(1, value, sel)
    \/ SubmitLoad(1)
    \/ CreateLoad(1)
    \/ CreateSave(1)
    \/ \E id \in 0..MaxClock, updates \in GroupUpdates : UpdateGroup(1, id, updates)
    \/ UpdateLoad(1)
    \/ UpdateSave(1)
    \/ \E id \in 0..MaxClock : DeleteGroup(1, id)
    \/ DeleteLoad(1)
    \/ DeleteSave(1)
    \/ Tick

SpecStore == InitStore /\ [][NextStore]_vars

-----------------------------------------------------------------------------
(* getOpenWindows and the create-group command (SpecCreate).  The script    *)
(* returns one text, a line per window; the bundle identifier, which holds  *)
(* no separator and no white space, is written as one character.            *)

Sep == <<"|", "|", "|">>

\* the order in which System Events lists the processes
ProcOrder == <<"A", "B", "R", "H">>

\* windowList & procName & "|||" & winTitle & "|||" & procBundle & "\n", for
\* the windows with a title that is not "" and that are not minimized
RECURSIVE windowLines(_, _)
windowLines(a, ws) ==
    IF ws = <<>> THEN <<>>
    ELSE (IF Head(ws).title # <<>> /\ ~Head(ws).min
          THEN procName(a) \o Sep \o Head(ws).title \o Sep \o <<procBundle(a)>> \o <<"\n">>
          ELSE <<>>)
         \o windowLines(a, Tail(ws))

\* the script of getOpenWindows: the lines of every visible, non-background
\* process
RECURSIVE getOpenWindowsScript(_, _)
getOpenWindowsScript(P, order) ==
    IF order = <<>> THEN <<>>
    ELSE (IF Head(order) \in visibleProcs(P)
          THEN windowLines(Head(order), P[Head(order)].wins)
          ELSE <<>>)
         \o getOpenWindowsScript(P, Tail(order))

\* where sep first occurs in t, 0 when it does not
firstOccurrence(t, sep) ==
    LET at == {i \in 1..(Len(t) - Len(sep) + 1) : SubSeq(t, i, i + Len(sep) - 1) = sep}
    IN IF at = {} THEN 0 ELSE CHOOSE i \in at : \A k \in at : i <= k

\* String.prototype.split(sep)
RECURSIVE split(_, _)
split(t, sep) ==
    LET i == firstOccurrence(t, sep)
    IN IF i = 0 THEN <<t>>
       ELSE <<SubSeq(t, 1, i - 1)>> \o split(SubSeq(t, i + Len(sep), Len(t)), sep)

\* getOpenWindows lines 185-203: the WindowInfo of each line, the tool's skipped
RECURSIVE parseLines(_)
parseLines(lines) ==
    IF lines = <<>> THEN <<>>
    ELSE LET parts == split(Head(lines), Sep)
             rest == parseLines(Tail(lines))
         IN IF Len(parts) >= 3 /\ trim(parts[3]) # <<RaycastBundle>>
            THEN <<[appName |-> trim(parts[1]), windowTitle |-> trim(parts[2]),
                    windowId |-> trim(parts[1]) \o <<":", ":">> \o trim(parts[2]),
                    bundleId |-> trim(parts[3])]>> \o rest
            ELSE rest

\* getOpenWindows: the script's text trimmed, split into non-empty lines and
\* parsed; [] when the script call is rejected (lines 206-209)
getOpenWindows(P, fault) ==
    IF fault THEN <<>>
    ELSE parseLines(SelectSeq(split(trim(getOpenWindowsScript(P, ProcOrder)), <<"\n">>),
                              LAMBDA l : Len(l) > 0))

\* the titles a window of application A may have: none, a blank, two names
CreateTitles == {<<>>, <<" ">>, <<"t">>, <<"u">>}

\* the titles the tool's own window may have
RaycastTitles == {<<"t">>, <<"t", "|", "|", "|", "u">>}

\* the windows of application A: on screen, or titled "u" and minimized
CreateWinKinds ==
    {<<t, FALSE>> : t \in CreateTitles} \cup {<<<<"u">>, TRUE>>}

CreateWinSeqs ==
    UNION {{[j \in 1..k |-> [id |-> j, title |-> f[j][1], min |-> f[j][2]]] :
                f \in [1..k -> CreateWinKinds]} : k \in 0..MaxOpenWins}

CreateWorlds ==
    {[a \in Apps |->
        CASE a = "A" -> [running |-> TRUE, visible |-> TRUE, wins |-> ws]
          [] a = "B" -> [running |-> FALSE, visible |-> FALSE, wins |-> <<>>]
          [] a = "R" -> [RaycastProc EXCEPT !.wins[1].title = rt]
          [] OTHER -> HelperProc] :
        ws \in CreateWinSeqs, rt \in RaycastTitles}

\* what the user may type into the name field of the pushed form
CreateNames == {<<"W">>, <<"V">>}

\* loadOpenWindows lines 117-119: setIsLoading(true), getOpenWindows() awaited
LoaderStarted == [pc |-> "getOpenWindows", windows |-> <<>>]

\* loadOpenWindows line 119: getOpenWindows() returned
LoadOpenWindows ==
    /\ loader.pc = "getOpenWindows"
    /\ \E fault \in BOOLEAN :
          loader' = [pc |-> "loadGroups", windows |-> getOpenWindows(procs, fault)]
    /\ UNCHANGED <<isLoading, openWindows, selectedWindows, form,
                   winVars, keyVars, storeVars, mgVars, twoVars>>

\* loadOpenWindows lines 122-132: loadGroups() returned, the windows of the
\* existing groups are filtered out, the list is shown
LoadOpenWindowsFilter ==
    /\ loader.pc = "loadGroups"
    /\ \E fault \in BOOLEAN :
          openWindows' = available(loader.windows, loadGroups(store, fault))
    /\ isLoading' = FALSE
    /\ loader' = LoaderIdle
    /\ UNCHANGED <<selectedWindows, form, winVars, keyVars, storeVars, mgVars, twoVars>>

\* the list with its items and actions is rendered (lines 166-182) and no
\* form is pushed on top of it
ListShown == ~isLoading /\ openWindows # <<>> /\ ~form.open

\* toggleWindow(window), lines 139-148
toggleWindow(selected, w) ==
    IF getWindowKey(w) \in selected THEN selected \ {getWindowKey(w)}
    ELSE selected \cup {getWindowKey(w)}

ToggleWindow(i) ==
    /\ ListShown
    /\ i \in 1..Len(openWindows)
    /\ selectedWindows' = toggleWindow(selectedWindows, openWindows[i])
    /\ UNCHANGED <<isLoading, openWindows, loader, form, winVars, keyVars, storeVars,
                   mgVars, twoVars>>

\* "Clear Selection", lines 205-211, offered while the selection is not empty
ClearSelection ==
    /\ ListShown
    /\ selectedWindows # {}
    /\ selectedWindows' = {}
    /\ UNCHANGED <<isLoading, openWindows, loader, form, winVars, keyVars, storeVars,
                   mgVars, twoVars>>

\* "Refresh Windows", lines 212-217 and 261-266: loadOpenWindows again
RefreshWindows ==
    /\ ListShown
    /\ isLoading' = TRUE
    /\ loader' = LoaderStarted
    /\ UNCHANGED <<openWindows, selectedWindows, form, winVars, keyVars, storeVars,
                   mgVars, twoVars>>

\* getSelectedWindowsList, lines 150-152
getSelectedWindowsList(windows, selected) ==
    SelectSeq(windows, LAMBDA w : getWindowKey(w) \in selected)

\* "Confirm & Name Group", lines 184-204 and 245-260, offered while
\* selectedWindows.size > 0: the form is pushed with the selected windows
ConfirmSelection ==
    /\ ListShown
    /\ Cardinality(selectedWindows) > 0
    /\ form' = [open |-> TRUE,
                selectedWindows |-> getSelectedWindowsList(openWindows, selectedWindows)]
    /\ UNCHANGED <<isLoading, openWindows, selectedWindows, loader,
                   winVars, keyVars, storeVars, mgVars, twoVars>>

\* the form's "Create Group" action: handleSubmit runs in a caller that is
\* not inside handleSubmit
FormSubmit(t, value) ==
    /\ form.open
    /\ task[t].pc = "idle" \/ (task[t].pc = "done" /\ task[t].outcome # "created")
    /\ Submit(t, value, form.selectedWindows)

\* handleSubmit lines 309-310, after the success toast: pop(), then
\* onComplete() clears the selection and runs loadOpenWindows
OnComplete(t) ==
    /\ task[t].pc = "done" /\ task[t].kind = "submit" /\ task[t].outcome = "created"
    /\ task' = [task EXCEPT ![t] = IdleTask]
    /\ form' = NoForm
    /\ selectedWindows' = {}
    /\ isLoading' = TRUE
    /\ loader' = LoaderStarted
    /\ UNCHANGED <<openWindows, store, now, winVars, keyVars, mgVars, twoVars>>

\* a window of application A is closed by the user
WindowCloses(j) ==
    /\ j \in 1..Len(procs["A"].wins)
    /\ procs' = [procs EXCEPT !["A"].wins =
                    SubSeq(@, 1, j - 1) \o SubSeq(@, j + 1, Len(@))]
    /\ UNCHANGED <<frontApp, pc, op, grp, idx, shown, notFound, found, faults,
                   minimizedBefore, refFault, threw, toast, activeGroupId, last, prev,
                   calls, keyVars, storeVars, uiVars, mgVars, twoVars>>

\* the command has just been opened: useEffect has called loadOpenWindows
InitCreate ==
    /\ procs \in CreateWorlds
    /\ frontApp = "R"
    /\ pc = "idle" /\ op = None /\ grp = NoGroup
    /\ idx = 0 /\ shown = 0 /\ notFound = <<>> /\ found = <<>>
    /\ faults = {} /\ refFault = {} /\ threw = FALSE
    /\ minimizedBefore = 0
    /\ toast = NoToast
    /\ activeGroupId = None
    /\ last = NoSummary /\ prev = NoSummary
    /\ calls = <<>>
    /\ InitKeyIdle
    /\ InitStoreIdle
    /\ isLoading = TRUE /\ openWindows = <<>> /\ selectedWindows = {}
    /\ loader = LoaderStarted /\ form = NoForm
    /\ InitMgIdle
    /\ InitTwoIdle

\* one submission at a time
NextCreate ==
    \/ LoadOpenWindows
    \/ LoadOpenWindowsFilter
    \/ \E i \in 1..MaxOpenWins : ToggleWindow(i)
    \/ ClearSelection
    \/ RefreshWindows
    \/ ConfirmSelection
    \/ \E value \in CreateNames : FormSubmit(1, value)
    \/ SubmitLoad(1)
    \/ CreateLoad(1)
    \/ CreateSave(1)
    \/ OnComplete(1)
    \/ \E j \in 1..MaxOpenWins : WindowCloses(j)

SpecCreate == InitCreate /\ [][NextCreate]_vars

\* the command opened with one window of application A, titled "t", on screen
InitCreateTwice ==
    /\ InitCreate
    /\ procs["A"].wins = <<[id |-> 1, title |-> <<"t">>, min |-> FALSE]>>
    /\ procs["R"] = RaycastProc

\* "Create Group" can be pressed again while an earlier handleSubmit is still
\* awaiting: two submissions of the one pushed form interleave at their awaits
NextCreateTwice ==
    \/ LoadOpenWindows
    \/ LoadOpenWindowsFilter
    \/ \E i \in 1..MaxOpenWins : ToggleWindow(i)
    \/ ClearSelection
    \/ RefreshWindows
    \/ ConfirmSelection
    \/ \E t \in Tasks, value \in CreateNames : FormSubmit(t, value)
    \/ \E t \in Tasks : SubmitLoad(t)
    \/ \E t \in Tasks : CreateLoad(t)
    \/ \E t \in Tasks : CreateSave(t)
    \/ \E t \in Tasks : OnComplete(t)
    \/ \E j \in 1..MaxOpenWins : WindowCloses(j)

SpecCreateTwice == InitCreateTwice /\ [][NextCreateTwice]_vars

-----------------------------------------------------------------------------
(* Two callers of the storage whose calls interleave at their awaits        *)
(* (SpecStoreTwice): the create-group form submitted from one surface while *)
(* another surface submits it too or deletes a group.                       *)

\* the name each caller types into its form
TwiceName(t) == IF t = 1 THEN <<"W">> ELSE <<"V">>

\* the windows each caller selected
TwiceSelection == <<[appName |-> <<"A">>, windowTitle |-> <<"t">>]>>

NextStoreTwice ==
    \/ \E t \in Tasks : Submit(t, TwiceName(t), TwiceSelection)
    \/ \E t \in Tasks : SubmitLoad(t)
    \/ \E t \in Tasks : CreateLoad(t)
    \/ \E t \in Tasks : CreateSave(t)
    \/ \E id \in 0..MaxClock : DeleteGroup(2, id)
    \/ DeleteLoad(2)
    \/ DeleteSave(2)
    \/ Tick

SpecStoreTwice == InitStore /\ [][NextStoreTwice]_vars

-----------------------------------------------------------------------------
(* manage-groups.tsx: the list of groups, its reload, the switch and the    *)
(* two deletions (SpecManage).  switch-group.tsx has the same list, reload  *)
(* and switch, and no deletion.  An id, Date.now().toString(), is written   *)
(* as an opaque text.                                                       *)

\* two groups created earlier, at different times
ManageStore ==
    <<[id |-> "g1", name |-> <<"W">>,
       windows |-> <<[appName |-> <<"A">>, windowTitle |-> <<"t">>]>>,
       createdAt |-> 0, updatedAt |-> 0],
      [id |-> "g2", name |-> <<"V">>,
       windows |-> <<[appName |-> <<"A">>, windowTitle |-> <<"u">>]>>,
       createdAt |-> 1, updatedAt |-> 1]>>

\* application A shows its windows "t" and "u", application B is not running
ManageWorld ==
    [a \in Apps |->
        CASE a = "A" -> [running |-> TRUE, visible |-> TRUE,
                         wins |-> <<[id |-> 1, title |-> <<"t">>, min |-> FALSE],
                                    [id |-> 2, title |-> <<"u">>, min |-> FALSE]>>]
          [] a = "B" -> [running |-> FALSE, visible |-> FALSE, wins |-> <<>>]
          [] a = "R" -> RaycastProc
          [] OTHER -> HelperProc]

\* loadGroupsData lines 28-33 (loadGroupsList in switch-group.tsx, lines
\* 16-21): loadGroups() returned, setGroups, setIsLoading(false)
LoadGroupsData ==
    /\ lister.pc = "loadGroups"
    /\ \E fault \in BOOLEAN : listGroups' = loadGroups(store, fault)
    /\ lister' = ListerIdle
    /\ UNCHANGED <<winVars, keyVars, storeVars, uiVars, twoVars>>

\* the "Refresh" action of a list item, lines 147-152
RefreshGroups ==
    /\ lister.pc = "idle"
    /\ listGroups # <<>>
    /\ lister' = [ListerIdle EXCEPT !.pc = "loadGroups"]
    /\ UNCHANGED <<listGroups, winVars, keyVars, storeVars, uiVars, twoVars>>

\* the "Switch to Group" action of item i, line 128
HandleSwitchToGroup(i) ==
    /\ i \in 1..Len(listGroups)
    /\ SwitchToGroup([id |-> listGroups[i].id, windows |-> listGroups[i].windows])

\* deleteGroup(group.id) is called and awaited by a handler of the list
StartDelete(i, from) ==
    /\ lister.pc = "idle"
    /\ StoreIdle(1)
    /\ lister' = [pc |-> "deleteGroup", id |-> listGroups[i].id, from |-> from]
    /\ task' = [task EXCEPT ![1] =
                 [IdleTask EXCEPT !.kind = "delete", !.pc = "deleteLoad",
                                  !.id = listGroups[i].id, !.storeBefore = store]]
    /\ UNCHANGED <<listGroups, store, now, winVars, keyVars, uiVars, twoVars>>

\* handleDeleteGroup lines 35-46: "Delete Group" of item i, confirmed
HandleDeleteGroup(i) ==
    /\ i \in 1..Len(listGroups)
    /\ StartDelete(i, "list")

\* GroupDetails.handleDelete lines 166-167: "View Details" of item i, then
\* "Delete Group" in the details view
HandleDelete(i) ==
    /\ i \in 1..Len(listGroups)
    /\ StartDelete(i, "details")

\* deleteGroup returned.  handleDeleteGroup lines 47-49: the indicator is reset
\* when it names the deleted group, then loadGroupsData runs; handleDelete
\* lines 168-170: pop(), then onRefresh, which is loadGroupsData.  A
\* deleteGroup that threw leaves either handler.
DeleteGroupReturned ==
    /\ lister.pc = "deleteGroup"
    /\ task[1].pc = "done"
    /\ IF task[1].outcome = "deleted"
       THEN /\ lister' = [ListerIdle EXCEPT !.pc = "loadGroups"]
            /\ activeGroupId' = IF lister.from = "list" /\ activeGroupId = lister.id
                                THEN None ELSE activeGroupId
       ELSE /\ lister' = ListerIdle
            /\ UNCHANGED activeGroupId
    /\ UNCHANGED <<procs, frontApp, pc, op, grp, idx, shown, notFound, found, faults,
                   minimizedBefore, refFault, threw, toast, last, prev, calls,
                   listGroups, keyVars, storeVars, uiVars, twoVars>>

\* the command has just been opened: useEffect has called loadGroupsData
InitManage ==
    /\ procs = ManageWorld
    /\ frontApp = "R"
    /\ pc = "idle" /\ op = None /\ grp = NoGroup
    /\ idx = 0 /\ shown = 0 /\ notFound = <<>> /\ found = <<>>
    /\ faults = {} /\ refFault = {} /\ threw = FALSE
    /\ minimizedBefore = 0
    /\ toast = NoToast
    /\ activeGroupId = None
    /\ last = NoSummary /\ prev = NoSummary
    /\ calls = <<>>
    /\ InitKeyIdle
    /\ store = ManageStore /\ now = MaxClock /\ task = [t \in Tasks |-> IdleTask]
    /\ InitUiIdle
    /\ listGroups = <<>> /\ lister = [ListerIdle EXCEPT !.pc = "loadGroups"]
    /\ InitTwoIdle

NextManage ==
    \/ LoadGroupsData
    \/ RefreshGroups
    \/ \E i \in 1..MaxGroups : HandleSwitchToGroup(i)
    \/ MinimizeAllExcept
    \/ RestoreVisible
    \/ RestoreWindow
    \/ SwitchResult
    \/ HandlerCatch
    \/ ShowAllWindows
    \/ RestoreAllWindows
    \/ \E i \in 1..MaxGroups : HandleDeleteGroup(i)
    \/ \E i \in 1..MaxGroups : HandleDelete(i)
    \/ DeleteLoad(1)
    \/ DeleteSave(1)
    \/ DeleteGroupReturned

SpecManage == InitManage /\ [][NextManage]_vars

-----------------------------------------------------------------------------
(* Two switch handlers whose awaits interleave (SpecSwitchTwice): "Switch   *)
(* to Group" is triggered again while an earlier switchToGroup is still     *)
(* running.  Each runAppleScript call runs its script as one step.          *)

\* the group ids of the two list items
TwoId(h) == IF h = 1 THEN "g1" ELSE "g2"

\* the windows lists of the groups switched to
TwoLists ==
    {<<[appName |-> <<"A">>, windowTitle |-> <<"t">>]>>,
     <<[appName |-> <<"A">>, windowTitle |-> <<"u">>]>>,
     <<[appName |-> <<"A">>, windowTitle |-> <<"t">>],
       [appName |-> <<"B">>, windowTitle |-> <<"t">>]>>}

\* application A with its windows "t" and "u", application B absent or with
\* one window "t"; every window on screen or minimized
TwoWorlds ==
    {[a \in Apps |->
        CASE a = "A" -> [running |-> TRUE, visible |-> TRUE,
                         wins |-> <<[id |-> 1, title |-> <<"t">>, min |-> m],
                                    [id |-> 2, title |-> <<"u">>, min |-> FALSE]>>]
          [] a = "B" -> pb
          [] a = "R" -> RaycastProc
          [] OTHER -> HelperProc] :
        m \in BOOLEAN,
        pb \in {[running |-> FALSE, visible |-> FALSE, wins |-> <<>>],
                [running |-> TRUE, visible |-> TRUE,
                 wins |-> <<[id |-> 1, title |-> <<"t">>, min |-> FALSE]>>]}}

\* restoreWindows lines 316-329 with no call rejected: the whole visibility loop
RECURSIVE restoreVisibleAll(_, _)
restoreVisibleAll(P, apps) ==
    IF apps = <<>> THEN P
    ELSE restoreVisibleAll(setVisibleScript(P, Head(apps)), Tail(apps))

\* restoreWindows lines 332-367 with no call rejected: the whole per-window loop
RECURSIVE restoreWindowsAll(_, _)
restoreWindowsAll(P, ws) ==
    IF ws = <<>> THEN P
    ELSE restoreWindowsAll(
            restoreWindowScript(P, "R", Head(ws).appName, Head(ws).windowTitle).procs,
            Tail(ws))

\* switchToGroup lines 28-31 run alone and with no call rejected: System
\* Events after minimizeAllExcept and restoreWindows
switched(P, g) ==
    restoreWindowsAll(
        restoreVisibleAll(minimizeAllExceptScript(P, keepSet(g.windows)),
                          uniqueAppsOf(g.windows)),
        g.windows)

\* switchToGroup lines 23-24: handler h is triggered
TwoSwitchToGroup(h, ws) ==
    /\ sw[h].pc = "idle"
    /\ sw' = [sw EXCEPT ![h] = [IdleSwitch EXCEPT !.pc = "minimizeAllExcept",
                                  !.grp = [id |-> TwoId(h), windows |-> ws]]]
    /\ UNCHANGED <<swStart, winVars, keyVars, storeVars, uiVars, mgVars>>

\* what a step of one of the two handlers leaves alone
TwoFrame ==
    UNCHANGED <<pc, op, grp, idx, shown, notFound, found, faults, minimizedBefore,
                refFault, threw, toast, last, prev, calls,
                swStart, keyVars, storeVars, uiVars, mgVars>>

\* switchToGroup line 28 in handler h
TwoMinimizeAllExcept(h) ==
    /\ sw[h].pc = "minimizeAllExcept"
    /\ \E fault \in BOOLEAN :
          IF fault
          THEN /\ sw' = [sw EXCEPT ![h].pc = "catch", ![h].fault = TRUE]
               /\ UNCHANGED procs
          ELSE /\ procs' = minimizeAllExceptScript(procs, keepSet(sw[h].grp.windows))
               /\ sw' = [sw EXCEPT ![h].pc = afterMinimize(sw[h].grp.windows),
                                   ![h].idx = 1]
    /\ UNCHANGED <<frontApp, activeGroupId>>
    /\ TwoFrame

\* restoreWindows lines 316-329 in handler h: one iteration
TwoRestoreVisible(h) ==
    /\ sw[h].pc = "visible"
    /\ LET apps == uniqueAppsOf(sw[h].grp.windows)
       IN \E fault \in BOOLEAN :
             /\ procs' = IF fault THEN procs ELSE setVisibleScript(procs, apps[sw[h].idx])
             /\ sw' = [sw EXCEPT ![h].fault = @ \/ fault,
                                 ![h].idx = IF sw[h].idx < Len(apps) THEN @ + 1 ELSE 1,
                                 ![h].pc = IF sw[h].idx < Len(apps) THEN "visible"
                                           ELSE "restore"]
    /\ UNCHANGED <<frontApp, activeGroupId>>
    /\ TwoFrame

\* restoreWindows lines 332-367 in handler h: one iteration
TwoRestoreWindow(h) ==
    /\ sw[h].pc = "restore"
    /\ LET w == sw[h].grp.windows[sw[h].idx]
           r == restoreWindowScript(procs, frontApp, w.appName, w.windowTitle)
           more == sw[h].idx < Len(sw[h].grp.windows)
       IN \E fault \in BOOLEAN :
             /\ procs' = IF fault THEN procs ELSE r.procs
             /\ frontApp' = IF fault THEN frontApp ELSE r.front
             /\ sw' = [sw EXCEPT
                  ![h].fault = @ \/ fault,
                  ![h].shown = IF ~fault /\ r.result = "found" THEN @ + 1 ELSE @,
                  ![h].notFound = IF ~fault /\ r.result = "found" THEN @
                                  ELSE Append(@, w),
                  ![h].idx = IF more THEN @ + 1 ELSE @,
                  ![h].pc = IF more THEN "restore" ELSE "result"]
    /\ UNCHANGED activeGroupId
    /\ TwoFrame

\* switchToGroup lines 31-47 in handler h: setActiveGroupId(group.id)
TwoSwitchResult(h) ==
    /\ sw[h].pc = "result"
    /\ sw' = [sw EXCEPT ![h].pc = "done"]
    /\ activeGroupId' = sw[h].grp.id
    /\ UNCHANGED <<procs, frontApp>>
    /\ TwoFrame

\* switchToGroup lines 48-52 in handler h: the catch block
TwoHandlerCatch(h) ==
    /\ sw[h].pc = "catch"
    /\ sw' = [sw EXCEPT ![h].pc = "done"]
    /\ UNCHANGED <<procs, frontApp, activeGroupId>>
    /\ TwoFrame

InitSwitchTwice ==
    /\ procs \in TwoWorlds
    /\ frontApp = "R"
    /\ pc = "idle" /\ op = None /\ grp = NoGroup
    /\ idx = 0 /\ shown = 0 /\ notFound = <<>> /\ found = <<>>
    /\ faults = {} /\ refFault = {} /\ threw = FALSE
    /\ minimizedBefore = 0
    /\ toast = NoToast
    /\ activeGroupId = None
    /\ last = NoSummary /\ prev = NoSummary
    /\ calls = <<>>
    /\ InitKeyIdle
    /\ InitStoreIdle
    /\ InitUiIdle
    /\ InitMgIdle
    /\ sw = [h \in Handlers |-> IdleSwitch]
    /\ swStart = procs

NextSwitchTwice ==
    \/ \E h \in Handlers, ws \in TwoLists : TwoSwitchToGroup(h, ws)
    \/ \E h \in Handlers : TwoMinimizeAllExcept(h)
    \/ \E h \in Handlers : TwoRestoreVisible(h)
    \/ \E h \in Handlers : TwoRestoreWindow(h)
    \/ \E h \in Handlers : TwoSwitchResult(h)
    \/ \E h \in Handlers : TwoHandlerCatch(h)

SpecSwitchTwice == InitSwitchTwice /\ [][NextSwitchTwice]_vars

-----------------------------------------------------------------------------
(* Properties of the storage and of the create-group form (SpecStore) *)

\* some group of gs has the name, compared case-insensitively
NameTaken(gs, name) ==
    \E i \in 1..Len(gs) : LowerStr(gs[i].name) = LowerStr(name)

\* C7: a submission whose trimmed name is empty or equals an existing group's
\* name case-insensitively ends with a failure toast, does not call
\* createGroup and leaves the stored collection unchanged.
C7_CollidingNameRejected ==
    \A t \in Tasks :
        (task[t].pc = "done" /\ task[t].kind = "submit"
         /\ (task[t].name = <<>> \/ NameTaken(task[t].storeBefore, task[t].name))) =>
            /\ task[t].toast.style = "Failure"
            /\ ~task[t].calledCreate
            /\ store = task[t].storeBefore

\* C8: no two stored groups have names that are equal case-insensitively.
C8_NamesUnique ==
    \A i, j \in 1..Len(store) :
        i # j => LowerStr(store[i].name) # LowerStr(store[j].name)

\* C9: after deleteGroup(id) completed, the store holds the groups stored
\* before except those with that id, every field and the order unchanged
\* (an absent id leaves the collection unchanged).
C9_DeleteFrame ==
    \A t \in Tasks :
        (task[t].pc = "done" /\ task[t].kind = "delete"
         /\ task[t].outcome = "deleted") =>
            /\ \A i \in 1..Len(store) : store[i].id # task[t].id
            /\ store = SelectSeq(task[t].storeBefore, LAMBDA g : g.id # task[t].id)

-----------------------------------------------------------------------------
(* Further properties of the switch (SpecWin) *)

\* C11: in the per-window loop of restoreWindows a rejected call for one
\* reference is caught: exactly that reference is appended to notFound, the
\* loop goes on with the later references, and restoreWindows returns its
\* result instead of throwing.
C11_WindowFaultLocal ==
    (op = "switch" /\ refFault # {}) =>
        LET ws == grp.windows
            missed == {i \in 1..Len(found) : found[i] = NoWindow}
        IN /\ pc \in {"restore", "result", "done"}
           /\ ~threw
           /\ refFault \subseteq missed
           /\ notFound = RefsAt(ws, missed)
           /\ shown = Len(found) - Cardinality(missed)
           /\ pc = "restore" => Len(found) = idx - 1
           /\ pc \in {"result", "done"} => Len(found) = Len(ws)
           /\ pc = "done" => toast = resultToast(shown, notFound, grp)

\* C11 witness: the call for the first of two references was rejected, the
\* second reference was still processed and shown, and the switch completed
C11_Witness ==
    /\ pc = "done" /\ op = "switch" /\ ~threw
    /\ refFault = {1}
    /\ Len(grp.windows) = 2
    /\ found[1] = NoWindow /\ found[2] # NoWindow
    /\ shown = 1 /\ notFound = <<grp.windows[1]>>

\* the three outcomes a completed switch can report
OutcomeOf(t) ==
    IF t.style = "Failure" /\ t.title = "No Windows Found" THEN "failure"
    ELSE IF t.style = "Success" /\ t.title = "Partially Switched" THEN "partial"
    ELSE IF t.style = "Success" THEN "success"
    ELSE "other"

\* C14: the toast of a completed switch is a function of its SwitchResult:
\* failure when shown = 0 (an empty group included) although nothing was
\* thrown, a success-styled partial message carrying both counts when
\* shown > 0 and notFound is non-empty, a full success when shown > 0 and
\* notFound is empty; the handler of manage-groups classifies the same
\* SwitchResult in the same way.
C14_ToastFromSwitchResult ==
    SwitchDone =>
        LET m == handleSwitchToGroupToast(shown, notFound, grp)
            expected == IF shown = 0 THEN "failure"
                        ELSE IF Len(notFound) > 0 THEN "partial"
                        ELSE "success"
        IN /\ OutcomeOf(toast) = expected
           /\ OutcomeOf(m) = expected
           /\ m.style = toast.style
           /\ expected = "partial" =>
                 /\ toast.message = <<shown, Len(notFound)>>
                 /\ m.message = <<shown, Len(notFound)>>

\* C14 witness: a switch to an empty group completed with no call rejected
\* and reports a failure
C14_Witness ==
    /\ SwitchDone
    /\ grp.windows = <<>>
    /\ faults = {} /\ refFault = {}
    /\ shown = 0
    /\ toast.style = "Failure"


\* C15: every started switch or show-all action eventually reports a
\* terminal outcome: the toast that starts in the animated state eventually
\* has the success or the failure style, given that every external call
\* eventually returns or faults.
C15_ToastEventuallyTerminal ==
    (toast.style = "Animated") ~> (toast.style \in {"Success", "Failure"})

\* C15 witness: a switch whose exclusionary minimize was rejected ended with
\* the failure toast of the catch block
C15_Witness ==
    /\ pc = "done" /\ op = "switch" /\ threw
    /\ faults = {"minimizeAllExcept"}
    /\ toast.style = "Failure"
    /\ grp.windows # <<>>

\* the phase a logged call belongs to
PhaseOf(c) ==
    CASE c.fn = "minimizeAllExcept" -> 1
      [] c.fn = "visible" -> 2
      [] c.fn = "restoreWindow" -> 3
      [] OTHER -> 0

CallsOf(fn) == SelectSeq(calls, LAMBDA c : c.fn = fn)

\* C17: within one switch the script calls are totally ordered: the
\* exclusionary minimize call comes first and once, then the visibility
\* calls, one per distinct application name of the group, all before the first
\* per-window restore call, then the per-window restore calls one at a time in
\* the order of the group's window list.
C17_CallsOrdered ==
    op = "switch" =>
        LET ws == grp.windows
            vis == CallsOf("visible")
            res == CallsOf("restoreWindow")
        IN /\ \A i \in 1..Len(calls) : PhaseOf(calls[i]) \in 1..3
           /\ \A i, j \in 1..Len(calls) : i < j => PhaseOf(calls[i]) <= PhaseOf(calls[j])
           /\ Len(CallsOf("minimizeAllExcept")) = (IF pc = "minimizeAllExcept" THEN 0 ELSE 1)
           /\ \A i, j \in 1..Len(vis) : i # j => vis[i].app # vis[j].app
           /\ \A i \in 1..Len(vis) : \E k \in 1..Len(ws) : ws[k].appName = vis[i].app
           /\ (res # <<>> \/ pc \in {"restore", "result"} \/ (pc = "done" /\ ~threw)) =>
                 \A k \in 1..Len(ws) : \E i \in 1..Len(vis) : vis[i].app = ws[k].appName
           /\ Len(res) <= Len(ws)
           /\ \A k \in 1..Len(res) :
                 res[k].app = ws[k].appName /\ res[k].title = ws[k].windowTitle
           /\ pc = "restore" => Len(res) = idx - 1
           /\ (pc = "result" \/ (pc = "done" /\ ~threw)) => Len(res) = Len(ws)

\* C17 witness: a switch to a group of two windows of one application issued
\* one minimize call, one visibility call and two restore calls
C17_Witness ==
    /\ SwitchDone
    /\ Len(grp.windows) = 2
    /\ grp.windows[1].appName = grp.windows[2].appName
    /\ grp.windows[1].windowTitle # grp.windows[2].windowTitle
    /\ Len(calls) = 4
    /\ calls[2].fn = "visible" /\ calls[3].fn = "restoreWindow"

-----------------------------------------------------------------------------
(* Further properties of the storage (SpecStore) *)

\* the storage calls that end by throwing to their caller, and why
Threw(t) == task[t].pc = "done" /\ task[t].outcome \in {"saveFailed", "notFound"}

\* C12: a fault while reading or parsing the stored blob makes loadGroups
\* return the empty list and its caller goes on (nothing is thrown because
\* of it); a fault while writing makes saveGroups throw, so createGroup,
\* updateGroup and deleteGroup throw to their caller.
C12_LoadDegradesSavePropagates ==
    \A t \in Tasks :
        /\ task[t].readFault =>
              /\ task[t].loaded = <<>>
              /\ task[t].pc \in {"createLoad", "createSave", "deleteSave", "done"}
              /\ task[t].kind = "delete" =>
                    /\ task[t].groups = <<>>
                    /\ task[t].pc = "done" => (task[t].outcome = "saveFailed"
                                                <=> task[t].saveFault)
              /\ (task[t].kind = "submit" /\ task[t].pc = "done") =>
                    (task[t].outcome = "saveFailed" <=> task[t].saveFault)
        /\ task[t].saveFault =>
              /\ task[t].pc = "done" /\ task[t].outcome = "saveFailed"
              /\ task[t].kind = "submit" =>
                    /\ task[t].toast.style = "Failure"
                    /\ task[t].toast.title = "Error Creating Group"
        /\ (task[t].pc = "done" /\ task[t].outcome = "saveFailed") => task[t].saveFault

\* C12 witness: deleteGroup read a stored collection of two groups with a
\* fault and then threw because its write faulted too
C12_Witness ==
    /\ task[1].pc = "done" /\ task[1].kind = "delete"
    /\ task[1].readFault /\ task[1].saveFault
    /\ task[1].outcome = "saveFailed"
    /\ Len(task[1].storeBefore) = 2
    /\ task[1].loaded = <<>>

\* C13: updateGroup with an id that matches no stored group throws the
\* not-found error, performs no save and leaves the stored collection
\* unchanged.
C13_UpdateAbsentThrows ==
    \A t \in Tasks :
        (task[t].kind = "update"
         /\ \A i \in 1..Len(task[t].storeBefore) : task[t].storeBefore[i].id # task[t].id) =>
            /\ task[t].pc \in {"updateLoad", "done"}
            /\ task[t].pc = "done" => task[t].outcome = "notFound"
            /\ ~task[t].saveFault
            /\ store = task[t].storeBefore

\* C13 witness: updateGroup read a non-empty collection without fault, found
\* no group with the id and threw
C13_Witness ==
    /\ task[1].pc = "done" /\ task[1].kind = "update"
    /\ task[1].outcome = "notFound"
    /\ ~task[1].readFault
    /\ task[1].loaded # <<>>
    /\ \A i \in 1..Len(task[1].loaded) : task[1].loaded[i].id # task[1].id

-----------------------------------------------------------------------------
(* Properties of getOpenWindows and of the create-group command (SpecCreate) *)

\* every window reference stored in some group
StoredRefs ==
    UNION {{store[g].windows[i] : i \in 1..Len(store[g].windows)} : g \in 1..Len(store)}

\* every window record getOpenWindows returned that the command still holds
CapturedWindows ==
    {loader.windows[i] : i \in 1..Len(loader.windows)}
    \cup {openWindows[i] : i \in 1..Len(openWindows)}

\* the (appName, windowTitle) pairs of a list of window references
PairsOf(ws) == {<<ws[i].appName, ws[i].windowTitle>> : i \in 1..Len(ws)}

\* C16, for the minimizing and restoring calls (SpecWin): no window of the
\* tool's own application is ever minimized.
C16_ToolNeverMinimized ==
    \A j \in 1..Len(procs["R"].wins) : ~procs["R"].wins[j].min

\* C16: no window of the tool's own application (bundle id com.raycast.macos)
\* is minimized, getOpenWindows never returns a window of that application,
\* and no stored window reference belongs to it.
C16_ToolExcluded ==
    /\ C16_ToolNeverMinimized
    /\ \A w \in CapturedWindows : w.appName # procName("R")
    /\ \A w \in StoredRefs : w.appName # procName("R")

\* the (appName, windowTitle) pairs of the windows of the groups gs
GroupPairs(gs) == UNION {PairsOf(gs[g].windows) : g \in 1..Len(gs)}

\* C18: when the windows handed to a submission excluded every window whose
\* (appName, windowTitle) key was in a stored group, then after the creation
\* the new group holds no key of another stored group: no key occurs in two
\* different stored groups.
C18_NoKeyInTwoGroups ==
    (\E t \in Tasks : task[t].pc = "done" /\ task[t].outcome = "created")
    /\ (\A t \in Tasks : task[t].kind = "submit" =>
            PairsOf(task[t].sel) \cap GroupPairs(task[t].storeBefore) = {})
    => \A g, h \in 1..Len(store) :
          g # h => PairsOf(store[g].windows) \cap PairsOf(store[h].windows) = {}

\* C18 without the proviso: no key occurs in two different stored groups
C18_NoKeyInTwoGroupsEver ==
    \A g, h \in 1..Len(store) :
        g # h => PairsOf(store[g].windows) \cap PairsOf(store[h].windows) = {}

\* C19: every group stored by the create-group flow has a non-empty windows
\* list: createGroup is never called with zero windows.
C19_GroupsNonEmpty ==
    /\ \A t \in Tasks :
          (task[t].kind = "submit" /\ task[t].calledCreate) => task[t].sel # <<>>
    /\ \A g \in 1..Len(store) : store[g].windows # <<>>

\* C20: every window record returned by getOpenWindows, and every window
\* reference stored in a group, has a non-empty appName and a non-empty
\* windowTitle.
C20_CapturedNonEmpty ==
    \A w \in CapturedWindows \cup StoredRefs :
        w.appName # <<>> /\ w.windowTitle # <<>>

-----------------------------------------------------------------------------
(* Identity and frame properties of the storage (SpecStore) *)

\* C21: group ids are unique: no two stored groups share an id, also when
\* the clock returns the same value for two successive creations.
C21_IdsUnique ==
    \A g, h \in 1..Len(store) : g # h => store[g].id # store[h].id

\* C22: a successful updateGroup(id, updates) changes only the group with
\* that id: the given fields are applied, updatedAt is the time of the call
\* whatever updates holds, id and createdAt are kept, and every other group
\* and the order of the collection are unchanged.
C22_UpdateFrame ==
    \A t \in Tasks :
        (task[t].pc = "done" /\ task[t].kind = "update"
         /\ task[t].outcome = "updated") =>
            LET before == task[t].storeBefore
                i == findIndex(before, task[t].id)
            IN /\ i # 0
               /\ Len(store) = Len(before)
               /\ \A k \in 1..Len(store) : k # i => store[k] = before[k]
               /\ store[i].id = before[i].id
               /\ store[i].createdAt = before[i].createdAt
               /\ store[i].updatedAt = task[t].clock
               /\ task[t].updates.field \in {"name", "windows"} =>
                     store[i][task[t].updates.field] = task[t].updates.value
               /\ \A f \in {"name", "windows"} \ {task[t].updates.field} :
                     store[i][f] = before[i][f]

\* C25: a successful mutating call never drops a group it does not target,
\* also when its load step faulted: after createGroup returned the store is
\* the collection stored before followed by the new group, and after
\* deleteGroup(id) returned it is that collection without the groups of that
\* id.
C25_NoUntargetedDropped ==
    \A t \in Tasks :
        /\ (task[t].pc = "done" /\ task[t].kind = "submit"
            /\ task[t].outcome = "created") =>
              /\ Len(store) = Len(task[t].storeBefore) + 1
              /\ SubSeq(store, 1, Len(task[t].storeBefore)) = task[t].storeBefore
              /\ store[Len(store)].name = task[t].name
        /\ (task[t].pc = "done" /\ task[t].kind = "delete"
            /\ task[t].outcome = "deleted") =>
              \A i \in 1..Len(task[t].storeBefore) :
                  task[t].storeBefore[i].id # task[t].id =>
                      \E k \in 1..Len(store) : store[k] = task[t].storeBefore[i]

-----------------------------------------------------------------------------
(* Interleaved storage calls (SpecStoreTwice) *)

\* a step in which the createGroup or deleteGroup call of t saves and returns
SavesAndReturns(t) ==
    /\ task[t].pc \in {"createSave", "deleteSave"}
    /\ task'[t].pc = "done"
    /\ task'[t].outcome \in {"created", "deleted"}

\* C23: the mutating calls are load-mutate-save cycles in which the last
\* write wins: when a call saves and returns, the stored collection becomes
\* the list that call loaded with its own change applied, whatever another
\* call stored since that load, so an interleaved call's update is lost.
C23_LastWriteWins ==
    [][\A t \in Tasks : SavesAndReturns(t) =>
          store' = IF task[t].kind = "submit"
                   THEN Append(task[t].loaded, task[t].groups[Len(task[t].groups)])
                   ELSE filterOut(task[t].loaded, task[t].id)]_vars

\* C23 witness: two createGroup calls both loaded the empty collection
\* without fault and both returned successfully; the one that saved last
\* wrote over a collection changed since its load, and the stored collection
\* holds its group only
C23_Witness ==
    \E t, u \in Tasks :
        /\ t # u
        /\ \A k \in {t, u} :
              /\ task[k].pc = "done" /\ task[k].kind = "submit"
              /\ task[k].outcome = "created"
              /\ ~task[k].readFault /\ ~task[k].saveFault
              /\ task[k].loaded = <<>>
        /\ task[u].stale /\ ~task[t].stale
        /\ Len(store) = 1
        /\ store[1].name = task[u].name

-----------------------------------------------------------------------------
(* The active-group indicator of the list commands (SpecManage) *)

\* a step in which loadGroupsData (loadGroupsList) completes
ReloadCompletes == lister.pc = "loadGroups" /\ lister'.pc = "idle"

\* C24, first half: when a reload of the list completes, activeGroupId is
\* null.
C24_ActiveResetOnReload ==
    [][ReloadCompletes => activeGroupId' = None]_vars

\* C24, second half: once the list is loaded and no handler of the list is
\* running, activeGroupId is null or the id of a stored group.
C24_ActiveNeverNamesDeleted ==
    (lister.pc = "idle" /\ task[1].pc \in {"idle", "done"}) =>
        (activeGroupId = None \/ \E i \in 1..Len(store) : store[i].id = activeGroupId)

\* C24: the active-group indicator is reset on every reload of the list, so
\* it never names a group that has been deleted.
C24_ActiveResetNeverStale ==
    C24_ActiveResetOnReload /\ []C24_ActiveNeverNamesDeleted

-----------------------------------------------------------------------------
(* Overlapping switches (SpecSwitchTwice) *)

\* both handlers have run to their end and no script call was rejected
BothSwitched == \A h \in Handlers : sw[h].pc = "done" /\ ~sw[h].fault

\* C26: when two switch handlers interleave at their awaits, the final set of
\* un-minimized windows and the final activeGroupId are those of one of the
\* two serial executions of the switches: the group marked active is the one
\* whose windows are left on screen.
C26_SerialOutcome ==
    BothSwitched =>
        \E a, b \in Handlers :
            /\ a # b
            /\ activeGroupId = sw[b].grp.id
            /\ VisibleWindows(procs) =
                   VisibleWindows(switched(switched(swStart, sw[a].grp), sw[b].grp))

====
